---- MODULE Spec2Model ----
(***************************************************************************)
(* meta::sequence::sequence_analyzer                                       *)
(* (src/src/sequence/sequence_analyzer.cpp).                               *)
(*                                                                         *)
(* The analyzer owns a feature mapping (feature name -> feature id) and a  *)
(* label mapping (tag <-> label id).  It resolves names in a mutating      *)
(* (training) and a read-only (inference) way, runs the observation        *)
(* functions of its pipeline over the positions of a sequence, and saves   *)
(* and loads both mappings under a prefix on disk.                         *)
(*                                                                         *)
(* A string is a sequence of pieces: a feature name "w[t]=" + norm is the  *)
(* literal piece followed by the characters of norm; the empty string is   *)
(* the empty sequence.                                                     *)
(***************************************************************************)
EXTENDS Integers, Sequences, FiniteSets, TLC

(***************************************************************************)
(* Bounds of the model.                                                    *)
(***************************************************************************)
\* longest sequence handed to analyze
MaxLen == 2
\* an indeterminate feature_id is any of 0 .. MaxIndeterminate
MaxIndeterminate == 1
\* number of save calls in one run
MaxSaves == 1
\* longest sequence handed to the default pipeline alone
MaxTokens == 3
\* largest value written over the count header of a feature-mapping file
MaxHeader == 3

\* the tags positions may carry
Tags == {"N", "V"}
\* the tokens (symbols) of the sequences
Words == {<<"A">>}
\* the names clients resolve directly through feature(); <<>> is ""
FeatureNames == {<<>>, <<"x">>, <<"y">>}
\* the tokens the default pipeline is run on alone: "", "AB", "abc",
\* "Run-23", "7"
Tokens ==
    {<<>>, <<"A", "B">>, <<"a", "b", "c">>,
     <<"R", "u", "n", "-", "2", "3">>, <<"7">>}

(***************************************************************************)
(* Characters (std::isdigit, std::isupper, utf::foldcase).                 *)
(***************************************************************************)
Digits == {"0", "1", "2", "3", "4", "5", "6", "7", "8", "9"}
Uppers == {"A", "B", "C", "R"}

isdigit(c) == c \in Digits
isupper(c) == c \in Uppers

foldchar(c) ==
    CASE c = "A" -> "a"
      [] c = "B" -> "b"
      [] c = "C" -> "c"
      [] c = "R" -> "r"
      [] OTHER -> c

foldcase(word) == [i \in 1..Len(word) |-> foldchar(word[i])]

Min(a, b) == IF a < b THEN a ELSE b

\* a literal followed by the characters of a string
Str(literal, chars) == <<literal>> \o chars

(***************************************************************************)
(* suffix and prefix (anonymous namespace).                                *)
(***************************************************************************)
\* suffix without the fallback to the whole token
suffix_no_fallback(input, length) ==
    IF length > Len(input)
    THEN <<>>
    ELSE SubSeq(input, Len(input) - length + 1, Len(input))

suffix(input, length) ==
    IF length > Len(input)
    THEN input
    ELSE SubSeq(input, Len(input) - length + 1, Len(input))

prefix(input, length) ==
    IF length > Len(input)
    THEN input
    ELSE SubSeq(input, 1, length)

(***************************************************************************)
(* Observations and sequences.  An observation holds its symbol, an        *)
(* optional tag, the label id and the feature vector the analyzer          *)
(* assigns.                                                                *)
(***************************************************************************)
observation(symbol, tagged, tag) ==
    [symbol |-> symbol, tagged |-> tagged, tag |-> tag,
     labeled |-> FALSE, label |-> 0, features |-> <<>>]

Observations ==
    {observation(w, TRUE, g) : w \in Words, g \in Tags}
        \cup {observation(w, FALSE, "") : w \in Words}

Sequences == UNION {[1..n -> Observations] : n \in 0..MaxLen}

FullyTagged(seq) == \A i \in 1..Len(seq) : seq[i].tagged

TaggedSequences == {seq \in Sequences : FullyTagged(seq)}

\* untagged sequences over Tokens
TokenSequences ==
    UNION {[1..n -> {observation(w, FALSE, "") : w \in Tokens}] :
              n \in 0..MaxTokens}

\* the symbols and tags of a sequence, without what analysis wrote
Raw(seq) ==
    [i \in 1..Len(seq) |->
        observation(seq[i].symbol, seq[i].tagged, seq[i].tag)]

(***************************************************************************)
(* The observation functions default_pos_analyzer registers.  Each yields  *)
(* the features it adds to the collector, in order, as <<name, amount>>.   *)
(* Positions are 0-based as in the code: seq[t + 1] is sequence[t].  A     *)
(* marker ("<s>", "</s1>", ...) is one piece of the name, after the        *)
(* literal that names the kind of feature.                                 *)
(***************************************************************************)
ExistsChar(word, P(_)) == \E i \in 1..Len(word) : P(word[i])
AllChars(word, P(_)) == \A i \in 1..Len(word) : P(word[i])
IsHyphen(c) == c = "-"

RECURSIVE affix_feats(_, _)
affix_feats(norm, i) ==
    IF i > 4
    THEN <<>>
    ELSE <<
            <<Str("w[t]_suffix_" \o ToString(i) \o "=", suffix(norm, i)), 1>>,
            <<Str("w[t]_prefix_" \o ToString(i) \o "=", prefix(norm, i)), 1>>
         >> \o affix_feats(norm, i + 1)

\* word_feats without the test of t for the not-sentence-start indicator
word_feats_any_position(word, t) ==
    LET norm == foldcase(word)
    IN  affix_feats(norm, 1)
        \o << <<Str("w[t]=", norm), 1>> >>
        \o (IF ExistsChar(word, isdigit)
            THEN << <<Str("w[t]_has_digit=1", <<>>), 1>> >>
            ELSE <<>>)
        \o (IF ExistsChar(word, IsHyphen)
            THEN << <<Str("w[t]_has_hyphen=1", <<>>), 1>> >>
            ELSE <<>>)
        \o (IF ExistsChar(word, isupper)
            THEN << <<Str("w[t]_has_upper=1", <<>>), 1>>,
                    <<Str("w[t]_has_upper_and_not_sentence_start=1",
                          <<>>), 1>> >>
            ELSE <<>>)
        \o (IF AllChars(word, isupper)
            THEN << <<Str("w[t]_all_upper=1", <<>>), 1>> >>
            ELSE <<>>)

word_feats(word, t) ==
    LET norm == foldcase(word)
    IN  affix_feats(norm, 1)
        \o << <<Str("w[t]=", norm), 1>> >>
        \o (IF ExistsChar(word, isdigit)
            THEN << <<Str("w[t]_has_digit=1", <<>>), 1>> >>
            ELSE <<>>)
        \o (IF ExistsChar(word, IsHyphen)
            THEN << <<Str("w[t]_has_hyphen=1", <<>>), 1>> >>
            ELSE <<>>)
        \o (IF ExistsChar(word, isupper)
            THEN << <<Str("w[t]_has_upper=1", <<>>), 1>> >>
                 \o (IF t # 0
                     THEN << <<Str("w[t]_has_upper_and_not_sentence_start=1",
                                   <<>>), 1>> >>
                     ELSE <<>>)
            ELSE <<>>)
        \o (IF AllChars(word, isupper)
            THEN << <<Str("w[t]_all_upper=1", <<>>), 1>> >>
            ELSE <<>>)

current_word_feats(seq, t) == word_feats(seq[t + 1].symbol, t)

previous_word_feats(seq, t) ==
    IF t > 0
    THEN << <<Str("w[t-1]=", foldcase(seq[t].symbol)), 1>> >>
         \o (IF t > 1
             THEN << <<Str("w[t-2]=", foldcase(seq[t - 1].symbol)), 1>> >>
             ELSE << <<Str("w[t-2]=", <<"<s>">>), 1>> >>)
    ELSE << <<Str("w[t-1]=", <<"<s>">>), 1>>,
            <<Str("w[t-2]=", <<"<s1>">>), 1>> >>

\* the next-word function with one end marker for both neighbours
next_word_feats_one_marker(seq, t) ==
    IF t + 1 < Len(seq)
    THEN << <<Str("w[t+1]=", foldcase(seq[t + 2].symbol)), 1>> >>
         \o (IF t + 2 < Len(seq)
             THEN << <<Str("w[t+2]=", foldcase(seq[t + 3].symbol)), 1>> >>
             ELSE << <<Str("w[t+2]=", <<"</s>">>), 1>> >>)
    ELSE << <<Str("w[t+1]=", <<"</s>">>), 1>>,
            <<Str("w[t+2]=", <<"</s>">>), 1>> >>

next_word_feats(seq, t) ==
    IF t + 1 < Len(seq)
    THEN << <<Str("w[t+1]=", foldcase(seq[t + 2].symbol)), 1>> >>
         \o (IF t + 2 < Len(seq)
             THEN << <<Str("w[t+2]=", foldcase(seq[t + 3].symbol)), 1>> >>
             ELSE << <<Str("w[t+2]=", <<"</s>">>), 1>> >>)
    ELSE << <<Str("w[t+1]=", <<"</s>">>), 1>>,
            <<Str("w[t+2]=", <<"</s1>">>), 1>> >>

bias_feats(seq, t) == << <<Str("bias", <<>>), 1>> >>

\* the positions of seq an observation function reads at t
current_word_reads(seq, t) == {t}

previous_word_reads(seq, t) ==
    {t} \cup (IF t > 0
              THEN {t - 1} \cup (IF t > 1 THEN {t - 2} ELSE {})
              ELSE {})

next_word_reads(seq, t) ==
    IF t + 1 < Len(seq)
    THEN {t + 1} \cup (IF t + 2 < Len(seq) THEN {t + 2} ELSE {})
    ELSE {}

bias_reads(seq, t) == {}

\* obs_fns_ of the analyzer default_pos_analyzer returns, in registration order
obs_fns_ == <<"current", "previous", "next", "bias">>

ObsFn(fn, seq, t) ==
    CASE fn = "current" -> current_word_feats(seq, t)
      [] fn = "previous" -> previous_word_feats(seq, t)
      [] fn = "next" -> next_word_feats(seq, t)
      [] fn = "bias" -> bias_feats(seq, t)

ObsReads(fn, seq, t) ==
    CASE fn = "current" -> current_word_reads(seq, t)
      [] fn = "previous" -> previous_word_reads(seq, t)
      [] fn = "next" -> next_word_reads(seq, t)
      [] fn = "bias" -> bias_reads(seq, t)

(***************************************************************************)
(* util::invertible_map<tag_t, label_id>: two maps kept in step.           *)
(***************************************************************************)
EmptyMap == [forward_ |-> <<>>, backward_ |-> <<>>]

contains_key(m, key) == key \in DOMAIN m.forward_

size(m) == Cardinality(DOMAIN m.forward_)

\* an insert does not overwrite an association that is already there
insert(m, key, value) ==
    [forward_ |-> m.forward_ @@ (key :> value),
     backward_ |-> m.backward_ @@ (value :> key)]

get_value(m, key) == m.forward_[key]

get_key(m, value) == m.backward_[value]

(***************************************************************************)
(* feature(): the mutating and the read-only resolve of a feature name.    *)
(* The mutating one yields the id and the mapping it leaves.               *)
(***************************************************************************)
\* feature() with the size taken after the insertion
feature_size_after(map, name) ==
    IF name \in DOMAIN map
    THEN [id |-> map[name], map |-> map]
    ELSE LET sze == Cardinality(DOMAIN map) + 1
         IN  [id |-> sze, map |-> (name :> sze) @@ map]

\* feature() returning the size after the insertion, storing the one before
feature_stale_return(map, name) ==
    IF name \in DOMAIN map
    THEN [id |-> map[name], map |-> map]
    ELSE LET sze == Cardinality(DOMAIN map)
         IN  [id |-> sze + 1, map |-> (name :> sze) @@ map]

feature(map, name) ==
    IF name \in DOMAIN map
    THEN [id |-> map[name], map |-> map]
    ELSE LET sze == Cardinality(DOMAIN map)
         IN  [id |-> sze, map |-> (name :> sze) @@ map]

\* feature() const reporting one past the size for an unseen name
feature_const_past_size(map, name) ==
    IF name \in DOMAIN map
    THEN map[name]
    ELSE Cardinality(DOMAIN map) + 1

feature_const(map, name) ==
    IF name \in DOMAIN map
    THEN map[name]
    ELSE Cardinality(DOMAIN map)

num_features(map) == Cardinality(DOMAIN map)

num_labels(m) == size(m)

label(m, lbl) == get_value(m, lbl)

tag(m, lbl) == get_key(m, lbl)

(***************************************************************************)
(* Collectors.  A collector is scoped to one position; add resolves the    *)
(* name against the analyzer and appends <<id, amount>> to the position's  *)
(* features.  events logs what ran, added the names the call registered.   *)
(***************************************************************************)
Event(kind, t, fn, name, id) ==
    [kind |-> kind, t |-> t, fn |-> fn, name |-> name, id |-> id]

NewCollector(map) == [map |-> map, feats |-> <<>>, events |-> <<>>, added |-> <<>>]

default_collector_add(coll, t, fn, name, amount) ==
    LET r == feature(coll.map, name)
    IN  [map |-> r.map,
         feats |-> Append(coll.feats, <<r.id, amount>>),
         events |-> Append(coll.events, Event("add", t, fn, name, r.id)),
         added |-> IF name \in DOMAIN coll.map
                   THEN coll.added
                   ELSE Append(coll.added, name)]

const_collector_add(coll, t, fn, name, amount) ==
    LET id == feature_const(coll.map, name)
    IN  [coll EXCEPT !.feats = Append(@, <<id, amount>>),
                     !.events = Append(@, Event("add", t, fn, name, id))]

collector_add(mutating, coll, t, fn, name, amount) ==
    IF mutating
    THEN default_collector_add(coll, t, fn, name, amount)
    ELSE const_collector_add(coll, t, fn, name, amount)

\* one observation function's adds, in the order it makes them
RECURSIVE AddAll(_, _, _, _, _)
AddAll(mutating, coll, t, fn, feats) ==
    IF feats = <<>>
    THEN coll
    ELSE AddAll(mutating,
                collector_add(mutating, coll, t, fn, Head(feats)[1], Head(feats)[2]),
                t, fn, Tail(feats))

\* the pipeline run from its last function to its first
RECURSIVE run_obs_fns_reversed(_, _, _, _, _)
run_obs_fns_reversed(mutating, coll, seq, t, i) ==
    IF i > Len(obs_fns_)
    THEN coll
    ELSE LET fn == Len(obs_fns_) + 1 - i
         IN  run_obs_fns_reversed(
                mutating,
                AddAll(mutating,
                       [coll EXCEPT
                           !.events = Append(@, Event("fn", t, fn, <<>>, 0))],
                       t, fn, ObsFn(obs_fns_[fn], seq, t)),
                seq, t, i + 1)

\* for (const auto& fn : obs_fns_) fn(sequence, t, coll);
RECURSIVE run_obs_fns(_, _, _, _, _)
run_obs_fns(mutating, coll, seq, t, i) ==
    IF i > Len(obs_fns_)
    THEN coll
    ELSE run_obs_fns(
            mutating,
            AddAll(mutating,
                   [coll EXCEPT !.events = Append(@, Event("fn", t, i, <<>>, 0))],
                   t, i, ObsFn(obs_fns_[i], seq, t)),
            seq, t, i + 1)

(***************************************************************************)
(* analyze(sequence, t), training mode: the pipeline with a mutating       *)
(* collector, then the label, registering the tag when it is new.          *)
(***************************************************************************)
\* analyze(sequence, t) inserting the tag without asking contains_key
analyze_at_unchecked(features, labels, seq, t) ==
    LET coll == run_obs_fns(TRUE, NewCollector(features), seq, t, 1)
        tg == seq[t + 1].tag
        labels2 == insert(labels, tg, size(labels))
        id == get_value(labels2, tg)
    IN  [features |-> coll.map,
         labels |-> labels2,
         seq |-> [seq EXCEPT ![t + 1].features = coll.feats,
                             ![t + 1].labeled = TRUE,
                             ![t + 1].label = id],
         events |-> Append(coll.events, Event("label", t, 0, <<>>, id)),
         added |-> coll.added]

\* analyze(sequence, t) writing the label before the pipeline runs
analyze_at_label_first(features, labels, seq, t) ==
    LET tg == seq[t + 1].tag
        labels2 == IF ~contains_key(labels, tg)
                   THEN insert(labels, tg, size(labels))
                   ELSE labels
        id == get_value(labels2, tg)
        coll == run_obs_fns(TRUE, NewCollector(features), seq, t, 1)
    IN  [features |-> coll.map,
         labels |-> labels2,
         seq |-> [seq EXCEPT ![t + 1].features = coll.feats,
                             ![t + 1].labeled = TRUE,
                             ![t + 1].label = id],
         events |-> <<Event("label", t, 0, <<>>, id)>> \o coll.events,
         added |-> coll.added]

\* analyze(sequence, t) taking the label id of a new tag from the size
\* after the insertion
analyze_at_size_after(features, labels, seq, t) ==
    LET coll == run_obs_fns(TRUE, NewCollector(features), seq, t, 1)
        tg == seq[t + 1].tag
        labels2 == IF ~contains_key(labels, tg)
                   THEN insert(labels, tg, size(labels) + 1)
                   ELSE labels
        id == get_value(labels2, tg)
    IN  [features |-> coll.map,
         labels |-> labels2,
         seq |-> [seq EXCEPT ![t + 1].features = coll.feats,
                             ![t + 1].labeled = TRUE,
                             ![t + 1].label = id],
         events |-> Append(coll.events, Event("label", t, 0, <<>>, id)),
         added |-> coll.added]

analyze_at(features, labels, seq, t) ==
    LET coll == run_obs_fns(TRUE, NewCollector(features), seq, t, 1)
        tg == seq[t + 1].tag
        labels2 == IF ~contains_key(labels, tg)
                   THEN insert(labels, tg, size(labels))
                   ELSE labels
        id == get_value(labels2, tg)
    IN  [features |-> coll.map,
         labels |-> labels2,
         seq |-> [seq EXCEPT ![t + 1].features = coll.feats,
                             ![t + 1].labeled = TRUE,
                             ![t + 1].label = id],
         events |-> Append(coll.events, Event("label", t, 0, <<>>, id)),
         added |-> coll.added]

(***************************************************************************)
(* analyze(sequence, t) const, inference mode: the pipeline with a         *)
(* read-only collector, then the label or the label-mapping size.          *)
(***************************************************************************)
\* analyze(sequence, t) const leaving label_id{} for an unknown tag
analyze_at_const_default_label(features, labels, seq, t) ==
    LET coll == run_obs_fns(FALSE, NewCollector(features), seq, t, 1)
        id == IF ~seq[t + 1].tagged \/ ~contains_key(labels, seq[t + 1].tag)
              THEN 0
              ELSE get_value(labels, seq[t + 1].tag)
    IN  [features |-> features,
         labels |-> labels,
         seq |-> [seq EXCEPT ![t + 1].features = coll.feats,
                             ![t + 1].labeled = TRUE,
                             ![t + 1].label = id],
         events |-> Append(coll.events, Event("label", t, 0, <<>>, id)),
         added |-> <<>>]

\* analyze(sequence, t) const registering a tag it does not know
analyze_at_const_registering(features, labels, seq, t) ==
    LET coll == run_obs_fns(FALSE, NewCollector(features), seq, t, 1)
        tg == seq[t + 1].tag
        labels2 == IF seq[t + 1].tagged /\ ~contains_key(labels, tg)
                   THEN insert(labels, tg, size(labels))
                   ELSE labels
        id == IF ~seq[t + 1].tagged
              THEN size(labels)
              ELSE get_value(labels2, tg)
    IN  [features |-> features,
         labels |-> labels2,
         seq |-> [seq EXCEPT ![t + 1].features = coll.feats,
                             ![t + 1].labeled = TRUE,
                             ![t + 1].label = id],
         events |-> Append(coll.events, Event("label", t, 0, <<>>, id)),
         added |-> <<>>]

\* analyze(sequence, t) const with the last label id in use as sentinel
analyze_at_const_last_id(features, labels, seq, t) ==
    LET coll == run_obs_fns(FALSE, NewCollector(features), seq, t, 1)
        id == IF ~seq[t + 1].tagged \/ ~contains_key(labels, seq[t + 1].tag)
              THEN (IF size(labels) = 0 THEN 0 ELSE size(labels) - 1)
              ELSE get_value(labels, seq[t + 1].tag)
    IN  [features |-> features,
         labels |-> labels,
         seq |-> [seq EXCEPT ![t + 1].features = coll.feats,
                             ![t + 1].labeled = TRUE,
                             ![t + 1].label = id],
         events |-> Append(coll.events, Event("label", t, 0, <<>>, id)),
         added |-> <<>>]

analyze_at_const(features, labels, seq, t) ==
    LET coll == run_obs_fns(FALSE, NewCollector(features), seq, t, 1)
        id == IF ~seq[t + 1].tagged \/ ~contains_key(labels, seq[t + 1].tag)
              THEN size(labels)
              ELSE get_value(labels, seq[t + 1].tag)
    IN  [features |-> features,
         labels |-> labels,
         seq |-> [seq EXCEPT ![t + 1].features = coll.feats,
                             ![t + 1].labeled = TRUE,
                             ![t + 1].label = id],
         events |-> Append(coll.events, Event("label", t, 0, <<>>, id)),
         added |-> <<>>]

\* analyze(sequence), training mode, from position t on
RECURSIVE analyze(_, _, _, _)
analyze(features, labels, seq, t) ==
    IF t < Len(seq)
    THEN LET r == analyze_at(features, labels, seq, t)
         IN  analyze(r.features, r.labels, r.seq, t + 1)
    ELSE [features |-> features, labels |-> labels, seq |-> seq]

(***************************************************************************)
(* Files under the prefix.  A feature-mapping stream is the 8-byte count   *)
(* followed by the <<key, value>> records; a label-mapping file is the     *)
(* <<tag, label id>> records.                                              *)
(***************************************************************************)
GzFile == "feature.mapping.gz"
PlainFile == "feature.mapping"
LabelFile == "label.mapping"
Files == {GzFile, PlainFile, LabelFile}

NoFile == [exists |-> FALSE, count |-> 0, records |-> <<>>]

\* the pairs of a map in the order its iteration visits them
RECURSIVE Entries(_)
Entries(map) ==
    IF DOMAIN map = {}
    THEN <<>>
    ELSE LET k == CHOOSE k \in DOMAIN map : TRUE
         IN  << <<k, map[k]>> >>
             \o Entries([n \in DOMAIN map \ {k} |-> map[n]])

(***************************************************************************)
(* load_feature_id_mapping(std::istream&).  The loop tests the stream      *)
(* before it reads: after the last record the stream is still good, so     *)
(* the body runs once more, both reads fail, key is the empty string and   *)
(* value was never written: feature_id_mapping_[""] takes an               *)
(* indeterminate value.                                                    *)
(***************************************************************************)
RECURSIVE read_records(_, _, _, _)
read_records(map, records, i, indeterminate) ==
    IF i <= Len(records)
    THEN read_records((records[i][1] :> records[i][2]) @@ map,
                      records, i + 1, indeterminate)
    ELSE (<<>> :> indeterminate) @@ map

\* the stream read for as many records as its header announces
load_feature_stream_counted(map, input, indeterminate) ==
    IF ~input.exists
    THEN [map |-> map, error |-> "missing feature id mapping"]
    ELSE LET num_keys == input.count
         IN  [map |-> read_records(
                        map,
                        SubSeq(input.records, 1,
                               Min(num_keys, Len(input.records))),
                        1, indeterminate),
              error |-> ""]

\* num_keys is read from the header, handed to the progress display and
\* set to 0: the loop runs on the state of the stream alone
load_feature_stream(map, input, indeterminate) ==
    IF ~input.exists
    THEN [map |-> map, error |-> "missing feature id mapping"]
    ELSE LET num_keys == input.count
         IN  [map |-> read_records(map, input.records, 1, indeterminate),
              error |-> ""]

\* load_feature_id_mapping(prefix): the .gz file when the build has zlib
\* and the file is there, the plain file otherwise
load_feature_id_mapping(map, files, zlib, indeterminate) ==
    IF zlib /\ files[GzFile].exists
    THEN load_feature_stream(map, files[GzFile], indeterminate)
    ELSE load_feature_stream(map, files[PlainFile], indeterminate)

\* map::load_mapping: every record of the file is inserted
RECURSIVE load_mapping(_, _, _)
load_mapping(m, records, i) ==
    IF i > Len(records)
    THEN m
    ELSE load_mapping(insert(m, records[i][1], records[i][2]), records, i + 1)

load_label_id_mapping(m, files) ==
    IF ~files[LabelFile].exists
    THEN [map |-> m, error |-> "missing label mapping"]
    ELSE [map |-> load_mapping(m, files[LabelFile].records, 1), error |-> ""]

\* load(prefix) clearing the mappings only once the files are found
load_clear_late(features, labels, files, zlib, indeterminate) ==
    LET f == load_feature_id_mapping(<<>>, files, zlib, indeterminate)
        l == load_label_id_mapping(EmptyMap, files)
    IN  IF f.error # ""
        THEN [features |-> features, labels |-> labels, error |-> f.error]
        ELSE [features |-> f.map, labels |-> l.map, error |-> l.error]

\* load(prefix): both mappings cleared, then the feature mapping, then the
\* label mapping; an exception ends the call where it is thrown
load(features, labels, files, zlib, indeterminate) ==
    LET f == load_feature_id_mapping(<<>>, files, zlib, indeterminate)
        l == load_label_id_mapping(EmptyMap, files)
    IN  IF f.error # ""
        THEN [features |-> f.map, labels |-> EmptyMap, error |-> f.error]
        ELSE [features |-> f.map, labels |-> l.map, error |-> l.error]

\* save(prefix): the count, then every pair of the feature mapping, then
\* the label mapping through map::save_mapping
save(features, labels, files, zlib) ==
    LET output == [exists |-> TRUE,
                   count |-> Cardinality(DOMAIN features),
                   records |-> Entries(features)]
        lab == [exists |-> TRUE,
                count |-> size(labels),
                records |-> Entries(labels.forward_)]
    IN  [files EXCEPT ![IF zlib THEN GzFile ELSE PlainFile] = output,
                      ![LabelFile] = lab]

(***************************************************************************)
(* State.                                                                  *)
(***************************************************************************)
VARIABLES
    feature_id_mapping_,  \* feature name -> feature id
    label_id_mapping_,    \* tag <-> label id
    has_zlib,             \* META_HAS_ZLIB of the build
    fs,                   \* the files under the prefix
    pc,                   \* the client: "idle", in analyze(sequence), "returned"
    sequence,             \* the sequence handed to analyze
    t,                    \* the loop index of analyze(sequence)
    trace,                \* what the running analyze call did, in order
    error,                \* the exception the last call ended with, or ""
    last,                 \* the last call and the mappings it started from
    first_seen,           \* names in the order feature() registered them
    fresh,                \* no load since construction
    trained,              \* the sequence as training mode left it
    saved,                \* the feature mapping the last save wrote
    saves                 \* save calls made

vars == <<feature_id_mapping_, label_id_mapping_, has_zlib, fs, pc, sequence,
          t, trace, error, last, first_seen, fresh, trained, saved, saves>>

Call(op, name, id) ==
    [op |-> op, name |-> name, id |-> id,
     features |-> feature_id_mapping_, labels |-> label_id_mapping_]

NoCall ==
    [op |-> "", name |-> <<>>, id |-> 0, features |-> <<>>, labels |-> EmptyMap]

NotTrained == [valid |-> FALSE, seq |-> <<>>]

NotSaved == [valid |-> FALSE, fresh |-> FALSE, features |-> <<>>]

\* what an earlier run left under the prefix: a new analyzer trained on
\* seq and saved
SavedBy(seq, zlib) ==
    LET r == analyze(<<>>, EmptyMap, seq, 0)
    IN  save(r.features, r.labels, [f \in Files |-> NoFile], zlib)

NoClient ==
    /\ pc = "idle"
    /\ sequence = <<>>
    /\ t = 0
    /\ trace = <<>>
    /\ error = ""
    /\ last = NoCall
    /\ first_seen = <<>>
    /\ trained = NotTrained
    /\ saved = NotSaved
    /\ saves = 0

\* sequence_analyzer(): both mappings empty; nothing under the prefix
InitNew ==
    /\ feature_id_mapping_ = <<>>
    /\ label_id_mapping_ = EmptyMap
    /\ has_zlib \in BOOLEAN
    /\ fs = [f \in Files |-> NoFile]
    /\ fresh = TRUE
    /\ NoClient

\* sequence_analyzer(prefix): load(prefix), on a prefix an earlier run saved
InitPrefix ==
    /\ has_zlib \in BOOLEAN
    /\ \E seq \in TaggedSequences : fs = SavedBy(seq, has_zlib)
    /\ \E indeterminate \in 0..MaxIndeterminate :
          LET r == load(<<>>, EmptyMap, fs, has_zlib, indeterminate)
          IN  /\ feature_id_mapping_ = r.features
              /\ label_id_mapping_ = r.labels
    /\ fresh = FALSE
    /\ NoClient

Init == InitNew \/ InitPrefix

\* a client calls feature(name) on the analyzer
Feature(name) ==
    /\ pc = "idle"
    /\ LET r == feature(feature_id_mapping_, name)
       IN  /\ feature_id_mapping_' = r.map
           /\ last' = Call("feature", name, r.id)
           /\ first_seen' = IF fresh /\ name \notin DOMAIN feature_id_mapping_
                            THEN Append(first_seen, name)
                            ELSE first_seen
    /\ pc' = "returned"
    /\ UNCHANGED <<label_id_mapping_, has_zlib, fs, sequence, t, trace, error,
                   fresh, trained, saved, saves>>

\* a client calls feature(name) on a const analyzer
FeatureConst(name) ==
    /\ pc = "idle"
    /\ last' = Call("feature const", name,
                    feature_const(feature_id_mapping_, name))
    /\ pc' = "returned"
    /\ UNCHANGED <<feature_id_mapping_, label_id_mapping_, has_zlib, fs,
                   sequence, t, trace, error, first_seen, fresh, trained, saved,
                   saves>>

\* analyze(sequence) is entered: t = 0, and the loop test
Enter(mutating, seq) ==
    /\ sequence' = seq
    /\ t' = 0
    /\ trace' = <<>>
    /\ pc' = IF Len(seq) = 0 THEN "returned"
             ELSE IF mutating THEN "analyze" ELSE "analyze const"
    /\ last' = Call(IF mutating THEN "analyze" ELSE "analyze const", <<>>, 0)
    /\ UNCHANGED <<feature_id_mapping_, label_id_mapping_, has_zlib, fs, error,
                   first_seen, fresh, saved, saves>>

\* a client hands a sequence to analyze.  Training takes tagged positions:
\* it reads sequence[t].tag() without asking tagged().
AnalyzeBegin(mutating, seq) ==
    /\ pc = "idle"
    /\ mutating => FullyTagged(seq)
    /\ Enter(mutating, seq)
    /\ trained' = IF mutating /\ Len(seq) = 0
                  THEN [valid |-> TRUE, seq |-> seq]
                  ELSE NotTrained

\* the client hands the sequence training mode just analyzed to
\* analyze const
AnalyzeAgain ==
    /\ pc = "returned"
    /\ last.op = "analyze"
    /\ Enter(FALSE, sequence)
    /\ UNCHANGED trained

\* one turn of the loop of analyze(sequence): analyze(sequence, t), ++t,
\* and the loop test
AnalyzeStep ==
    /\ pc \in {"analyze", "analyze const"}
    /\ t < Len(sequence)
    /\ LET r == IF pc = "analyze"
                THEN analyze_at(feature_id_mapping_, label_id_mapping_,
                                sequence, t)
                ELSE analyze_at_const(feature_id_mapping_, label_id_mapping_,
                                      sequence, t)
           done == ~(t + 1 < Len(sequence))
       IN  /\ feature_id_mapping_' = r.features
           /\ label_id_mapping_' = r.labels
           /\ sequence' = r.seq
           /\ trace' = trace \o r.events
           /\ first_seen' = IF fresh THEN first_seen \o r.added ELSE first_seen
           /\ t' = t + 1
           /\ pc' = IF done THEN "returned" ELSE pc
           /\ trained' = IF done /\ pc = "analyze"
                         THEN [valid |-> TRUE, seq |-> r.seq]
                         ELSE trained
    /\ UNCHANGED <<has_zlib, fs, error, last, fresh, saved, saves>>

\* save(prefix)
Save ==
    /\ pc = "idle"
    /\ saves < MaxSaves
    /\ saves' = saves + 1
    /\ fs' = save(feature_id_mapping_, label_id_mapping_, fs, has_zlib)
    /\ saved' = [valid |-> TRUE, fresh |-> fresh,
                  features |-> feature_id_mapping_]
    /\ last' = Call("save", <<>>, 0)
    /\ pc' = "returned"
    /\ UNCHANGED <<feature_id_mapping_, label_id_mapping_, has_zlib, sequence,
                   t, trace, error, first_seen, fresh, trained>>

\* load(prefix)
Load ==
    /\ pc = "idle"
    /\ \E indeterminate \in 0..MaxIndeterminate :
          LET r == load(feature_id_mapping_, label_id_mapping_, fs, has_zlib,
                        indeterminate)
          IN  /\ feature_id_mapping_' = r.features
              /\ label_id_mapping_' = r.labels
              /\ error' = r.error
    /\ last' = Call("load", <<>>, 0)
    /\ first_seen' = <<>>
    /\ fresh' = FALSE
    /\ pc' = "returned"
    /\ UNCHANGED <<has_zlib, fs, sequence, t, trace, trained, saved, saves>>

\* the call is over: the client lets go of what it returned
Return ==
    /\ pc = "returned"
    /\ pc' = "idle"
    /\ sequence' = <<>>
    /\ t' = 0
    /\ trace' = <<>>
    /\ error' = ""
    /\ last' = NoCall
    /\ trained' = NotTrained
    /\ UNCHANGED <<feature_id_mapping_, label_id_mapping_, has_zlib, fs,
                   first_seen, fresh, saved, saves>>

\* a file under the prefix is removed from outside
RemoveFile(f) ==
    /\ pc = "idle"
    /\ fs[f].exists
    /\ fs' = [fs EXCEPT ![f] = NoFile]
    /\ saved' = NotSaved
    /\ UNCHANGED <<feature_id_mapping_, label_id_mapping_, has_zlib, pc,
                   sequence, t, trace, error, last, first_seen, fresh, trained,
                   saves>>

\* the count header of a feature-mapping file is overwritten from outside
\* (a file another writer left): the records stay as they are
SetHeader(f, count) ==
    /\ pc = "idle"
    /\ f \in {GzFile, PlainFile}
    /\ fs[f].exists
    /\ fs[f].count # count
    /\ fs' = [fs EXCEPT ![f].count = count]
    /\ UNCHANGED <<feature_id_mapping_, label_id_mapping_, has_zlib, pc,
                   sequence, t, trace, error, last, first_seen, fresh, trained,
                   saved, saves>>

\* resolves and persistence
NextMapping ==
    \/ \E name \in FeatureNames : Feature(name)
    \/ \E name \in FeatureNames : FeatureConst(name)
    \/ Save
    \/ Load
    \/ Return
    \/ \E f \in Files : RemoveFile(f)

\* analysis in both modes
NextAnalyze ==
    \/ \E seq \in Sequences : AnalyzeBegin(TRUE, seq)
    \/ \E seq \in Sequences : AnalyzeBegin(FALSE, seq)
    \/ AnalyzeAgain
    \/ AnalyzeStep
    \/ \E name \in FeatureNames : FeatureConst(name)
    \/ Return

\* persistence over feature-mapping files whose header was rewritten
NextStream ==
    \/ \E name \in FeatureNames : Feature(name)
    \/ Save
    \/ \E f \in Files, count \in 0..MaxHeader : SetHeader(f, count)
    \/ Load
    \/ Return

\* the default pipeline over token sequences, in inference mode
NextPipeline ==
    \/ \E seq \in TokenSequences : AnalyzeBegin(FALSE, seq)
    \/ AnalyzeStep
    \/ Return

Next == NextMapping \/ NextAnalyze \/ NextStream \/ NextPipeline

Spec == Init /\ [][Next]_vars

SpecMapping == Init /\ [][NextMapping]_vars

\* resolves and persistence on a default-constructed analyzer
SpecNew == InitNew /\ [][NextMapping]_vars

\* a build with zlib
InitAnalyze == Init /\ has_zlib

SpecAnalyze == InitAnalyze /\ [][NextAnalyze]_vars

\* a default-constructed analyzer and the files it saves, headers rewritten
SpecStream == InitNew /\ [][NextStream]_vars

\* default_pos_analyzer() as returned, used for inference
InitPipeline == InitNew /\ has_zlib

SpecPipeline == InitPipeline /\ [][NextPipeline]_vars

(***************************************************************************)
(* Properties.                                                             *)
(***************************************************************************)
Returned(op) == pc = "returned" /\ last.op = op

Ids(map) == {map[n] : n \in DOMAIN map}

MissingMappingErrors == {"missing feature id mapping", "missing label mapping"}

\* the stream load_feature_id_mapping(prefix) opens
FeatureFile ==
    IF has_zlib /\ fs[GzFile].exists THEN fs[GzFile] ELSE fs[PlainFile]

\* what a read-only resolve of name yields on the mapping `before`
Resolved(name, id, before) ==
    IF name \in DOMAIN before
    THEN id = before[name]
    ELSE id = num_features(before)

\* C1: N >= 1 names registered through feature() on a new analyzer, then
\* save, then load: every name saved has the id it had, and num_features()
\* is N as it was at the save.
C1_RoundTrip ==
    (Returned("load") /\ error = "" /\ saved.valid /\ saved.fresh
        /\ num_features(saved.features) >= 1)
        => /\ \A n \in DOMAIN saved.features :
                /\ n \in DOMAIN feature_id_mapping_
                /\ feature_id_mapping_[n] = saved.features[n]
           /\ num_features(feature_id_mapping_) = num_features(saved.features)

\* C2: a read-only resolve of a name the mapping (of size S) lacks yields S,
\* of a name it holds the stored id, and leaves the mapping as it was; so
\* does every add of an inference-mode analyze.
C2_ModeAsymmetry ==
    /\ Returned("feature const")
        => /\ Resolved(last.name, last.id, last.features)
           /\ feature_id_mapping_ = last.features
    /\ last.op = "analyze const"
        => /\ feature_id_mapping_ = last.features
           /\ \A i \in 1..Len(trace) :
                trace[i].kind = "add"
                    => Resolved(trace[i].name, trace[i].id, last.features)

C2_Witness ==
    /\ Returned("analyze const")
    /\ num_features(feature_id_mapping_) > 0
    /\ \E i \in 1..Len(trace) :
          /\ trace[i].kind = "add"
          /\ trace[i].name \notin DOMAIN feature_id_mapping_
          /\ trace[i].id = num_features(feature_id_mapping_)
    /\ \E i \in 1..Len(trace) :
          /\ trace[i].kind = "add"
          /\ trace[i].name \in DOMAIN feature_id_mapping_

\* C3: on a new analyzer the k-th name registered has id k - 1, and a
\* resolve (mutating or read-only) of a name that has an id yields that id
\* and leaves the mapping as it was.
C3_MonotonicIds ==
    fresh =>
        /\ Len(first_seen) = num_features(feature_id_mapping_)
        /\ \A k \in 1..Len(first_seen) :
              /\ first_seen[k] \in DOMAIN feature_id_mapping_
              /\ feature_id_mapping_[first_seen[k]] = k - 1
        /\ (Returned("feature") /\ last.name \notin DOMAIN last.features)
              => /\ first_seen[Len(first_seen)] = last.name
                 /\ last.id = Len(first_seen) - 1
        /\ ((Returned("feature") \/ Returned("feature const"))
                /\ last.name \in DOMAIN last.features)
              => /\ last.id = last.features[last.name]
                 /\ feature_id_mapping_ = last.features

C3_Witness ==
    /\ fresh
    /\ Returned("feature")
    /\ Len(first_seen) = 3
    /\ last.name = first_seen[3]
    /\ last.name \in DOMAIN last.features
    /\ last.id = 2

\* C4: the feature ids in the mapping are exactly 0 .. num_features() - 1.
C4_ContiguousIds ==
    Ids(feature_id_mapping_) = 0..(num_features(feature_id_mapping_) - 1)

\* C5: inference-mode analyze gives an untagged position, and a position
\* whose tag the label mapping lacks, the label-mapping size as label id,
\* and a position whose tag it holds that tag's label id.
C5_UnknownTag ==
    last.op = "analyze const" =>
        \A i \in 1..t :
            /\ sequence[i].labeled
            /\ sequence[i].label =
                  IF ~sequence[i].tagged
                        \/ ~contains_key(last.labels, sequence[i].tag)
                  THEN num_labels(last.labels)
                  ELSE label(last.labels, sequence[i].tag)

C5_Witness ==
    /\ Returned("analyze const")
    /\ num_labels(label_id_mapping_) = 1
    /\ \E i \in 1..Len(sequence) :
          /\ ~sequence[i].tagged
          /\ sequence[i].label = 1
    /\ \E i \in 1..Len(sequence) :
          /\ sequence[i].tagged
          /\ ~contains_key(label_id_mapping_, sequence[i].tag)
          /\ sequence[i].label = 1

\* C6: tag(label(g)) = g for every tag g with a label id, and
\* label(tag(l)) = l for every label id l assigned.
C6_LabelBijective ==
    /\ \A g \in DOMAIN label_id_mapping_.forward_ :
          /\ label(label_id_mapping_, g) \in DOMAIN label_id_mapping_.backward_
          /\ tag(label_id_mapping_, label(label_id_mapping_, g)) = g
    /\ \A l \in DOMAIN label_id_mapping_.backward_ :
          /\ tag(label_id_mapping_, l) \in DOMAIN label_id_mapping_.forward_
          /\ label(label_id_mapping_, tag(label_id_mapping_, l)) = l

C6_Witness ==
    /\ Returned("analyze")
    /\ fresh
    /\ num_labels(label_id_mapping_) = 2
    /\ num_labels(last.labels) = 1
    /\ \E i \in 1..Len(sequence) : contains_key(last.labels, sequence[i].tag)

\* C7: load on a prefix with none of the three files ends with a
\* missing-mapping error, and both mappings are empty then.
C7_MissingFiles ==
    (Returned("load") /\ \A f \in Files : ~fs[f].exists)
        => /\ error \in MissingMappingErrors
           /\ feature_id_mapping_ = <<>>
           /\ label_id_mapping_ = EmptyMap

C7_Witness ==
    /\ Returned("load")
    /\ \A f \in Files : ~fs[f].exists
    /\ error = "missing feature id mapping"
    /\ num_features(last.features) > 0
    /\ num_labels(last.labels) > 0

\* C8: load ends with both mappings loaded, or with a missing-mapping
\* error and neither mapping holding a record of its file; with both files
\* missing the error is the feature-mapping one.
C8_NoPartialLoad ==
    Returned("load") =>
        /\ error = ""
              => /\ FeatureFile.exists /\ fs[LabelFile].exists
                 /\ \A i \in 1..Len(FeatureFile.records) :
                       FeatureFile.records[i][1] \in DOMAIN feature_id_mapping_
                 /\ \A i \in 1..Len(fs[LabelFile].records) :
                       contains_key(label_id_mapping_,
                                    fs[LabelFile].records[i][1])
        /\ error # ""
              => /\ error \in MissingMappingErrors
                 /\ \A i \in 1..Len(FeatureFile.records) :
                       FeatureFile.records[i][1]
                            \notin DOMAIN feature_id_mapping_
                 /\ \A i \in 1..Len(fs[LabelFile].records) :
                       ~contains_key(label_id_mapping_,
                                     fs[LabelFile].records[i][1])
        /\ (~FeatureFile.exists /\ ~fs[LabelFile].exists)
              => error = "missing feature id mapping"

\* the ids the running analyze call resolved at position i, in order
ResolvedAt(i) ==
    LET adds == SelectSeq(trace, LAMBDA e : e.kind = "add" /\ e.t = i - 1)
    IN  [k \in 1..Len(adds) |-> adds[k].id]

\* the label ids the running analyze call assigned at position i
LabelsAt(i) ==
    LET labels == SelectSeq(trace, LAMBDA e : e.kind = "label" /\ e.t = i - 1)
    IN  [k \in 1..Len(labels) |-> labels[k].id]

FeatureIds(obs) == [k \in 1..Len(obs.features) |-> obs.features[k][1]]

\* C9: a fully tagged sequence analyzed in training mode and then, the
\* mappings untouched, in inference mode has at every position the feature
\* ids and the label id training gave it; every name and tag is resolved
\* from the mappings.
C9_ModeConsistency ==
    (Returned("analyze const") /\ trained.valid)
        => /\ sequence = trained.seq
           /\ \A i \in 1..Len(sequence) :
                 /\ ResolvedAt(i) = FeatureIds(trained.seq[i])
                 /\ LabelsAt(i) = <<trained.seq[i].label>>
           /\ \A i \in 1..Len(trace) :
                 trace[i].kind = "add"
                    => trace[i].name \in DOMAIN feature_id_mapping_
           /\ \A i \in 1..Len(sequence) :
                 /\ contains_key(label_id_mapping_, sequence[i].tag)
                 /\ sequence[i].label = label(label_id_mapping_, sequence[i].tag)

C9_Witness ==
    /\ Returned("analyze const")
    /\ trained.valid
    /\ Len(sequence) = 2
    /\ sequence[1].tag # sequence[2].tag
    /\ Len(sequence[2].features) > 0
    /\ sequence = trained.seq

IsFnCall(e) == e.kind = "fn"

\* C10: analyze(sequence) runs, for t = 0, 1, ..., n - 1 in this order and
\* once each, the observation functions in registration order.
C10_TraversalOrder ==
    LET calls == SelectSeq(trace, IsFnCall)
        n_fns == Len(obs_fns_)
    IN  /\ t <= Len(sequence)
        /\ Len(calls) = t * n_fns
        /\ \A k \in 1..Len(calls) :
              /\ calls[k].t = (k - 1) \div n_fns
              /\ calls[k].fn = ((k - 1) % n_fns) + 1
        /\ (Returned("analyze") \/ Returned("analyze const"))
              => t = Len(sequence)

C10_Witness ==
    /\ Returned("analyze const")
    /\ Len(sequence) >= 2
    /\ Len(SelectSeq(trace, IsFnCall)) = Len(sequence) * Len(obs_fns_)

\* the names the running analyze call added at position p (0-based)
\* through observation function fn, in order
NamesAdded(p, fn) ==
    LET adds == SelectSeq(trace,
                          LAMBDA e : e.kind = "add" /\ e.t = p /\ e.fn = fn)
    IN  [k \in 1..Len(adds) |-> adds[k].name]

\* the names of one kind ("w[t-1]=", ...) added at position p
NamesOfKind(p, kind) ==
    LET adds == SelectSeq(trace,
                          LAMBDA e : /\ e.kind = "add"
                                     /\ e.t = p
                                     /\ Len(e.name) > 0
                                     /\ e.name[1] = kind)
    IN  [k \in 1..Len(adds) |-> adds[k].name]

NeighbourKinds == {"w[t-1]=", "w[t-2]=", "w[t+1]=", "w[t+2]="}

\* C11: in the default pipeline position 0 of a 1-token sequence gets
\* exactly w[t-1]=<s>, w[t-2]=<s1> from the previous-word function and
\* exactly w[t+1]=</s>, w[t+2]=</s1> from the next-word function; every
\* position of every sequence gets exactly one feature of each of the kinds
\* w[t-1], w[t-2], w[t+1], w[t+2]; every position an observation function
\* reads is within 0 .. n - 1.
C11_BoundaryMarkers ==
    last.op = "analyze const" =>
        /\ \A p \in 0..(t - 1) :
              /\ \A kind \in NeighbourKinds : Len(NamesOfKind(p, kind)) = 1
              /\ \A fn \in 1..Len(obs_fns_) :
                    ObsReads(obs_fns_[fn], sequence, p)
                        \subseteq 0..(Len(sequence) - 1)
        /\ (Len(sequence) = 1 /\ t = 1)
              => /\ NamesAdded(0, 2) = << <<"w[t-1]=", "<s>">>,
                                          <<"w[t-2]=", "<s1>">> >>
                 /\ NamesAdded(0, 3) = << <<"w[t+1]=", "</s>">>,
                                          <<"w[t+2]=", "</s1>">> >>

C11_Witness ==
    /\ Returned("analyze const")
    /\ Len(sequence) = 1
    /\ sequence[1].symbol = <<"R", "u", "n", "-", "2", "3">>
    /\ Len(NamesAdded(0, 2)) = 2
    /\ Len(NamesAdded(0, 3)) = 2

FirstChars(w, m) == [k \in 1..m |-> w[k]]

LastChars(w, m) == [k \in 1..m |-> w[Len(w) - m + k]]

\* C12: for the case-folded token w at a position and every n in 1..4 the
\* value of the suffix_n feature is the last min(n, |w|) characters of w
\* and the value of the prefix_n feature the first min(n, |w|) characters;
\* with n > |w| both are the whole token.
C12_AffixFallback ==
    last.op = "analyze const" =>
        \A p \in 0..(t - 1) :
            LET w == foldcase(sequence[p + 1].symbol)
                names == NamesAdded(p, 1)
            IN  \A n \in 1..4 :
                    /\ names[2 * n - 1] =
                          <<"w[t]_suffix_" \o ToString(n) \o "=">>
                              \o LastChars(w, Min(n, Len(w)))
                    /\ names[2 * n] =
                          <<"w[t]_prefix_" \o ToString(n) \o "=">>
                              \o FirstChars(w, Min(n, Len(w)))
                    /\ n > Len(w)
                          => /\ Tail(names[2 * n - 1]) = w
                             /\ Tail(names[2 * n]) = w

C12_Witness ==
    /\ Returned("analyze const")
    /\ Len(sequence) = 3
    /\ sequence[1].symbol = <<>>
    /\ NamesAdded(0, 1)[1] = <<"w[t]_suffix_1=">>
    /\ sequence[2].symbol = <<"A", "B">>
    /\ NamesAdded(1, 1)[7] = <<"w[t]_suffix_4=", "a", "b">>
    /\ NamesAdded(1, 1)[2] = <<"w[t]_prefix_1=", "a">>
    /\ sequence[3].symbol = <<"R", "u", "n", "-", "2", "3">>
    /\ NamesAdded(2, 1)[3] = <<"w[t]_suffix_2=", "2", "3">>
    /\ NamesAdded(2, 1)[8] = <<"w[t]_prefix_4=", "r", "u", "n", "-">>

\* the marker the previous-word function uses for w[t-1] before the start
StartMarker(seq) == previous_word_feats(seq, 0)[1][1][2]

\* the marker the next-word function uses for w[t+1] past the end
EndMarker(seq) == next_word_feats(seq, Len(seq) - 1)[1][1][2]

\* C13: at every position p with p - 2 before the start of the sequence
\* the marker of the w[t-2] feature differs from the start marker of the
\* w[t-1] features, and at every position with p + 2 past the end the
\* marker of the w[t+2] feature differs from the end marker of the w[t+1]
\* features.
C13_SecondMarkerDistinct ==
    last.op = "analyze const" =>
        \A p \in 0..(t - 1) :
            /\ p < 2
                  => NamesOfKind(p, "w[t-2]=")[1][2] # StartMarker(sequence)
            /\ p + 2 >= Len(sequence)
                  => NamesOfKind(p, "w[t+2]=")[1][2] # EndMarker(sequence)

\* one turn of the training loop, seen from the position's tag g
TrainingStepLabels ==
    (pc = "analyze" /\ t' = t + 1) =>
        LET g == sequence[t + 1].tag
        IN  /\ sequence'[t + 1].labeled
            /\ contains_key(label_id_mapping_', g)
            /\ sequence'[t + 1].label = label(label_id_mapping_', g)
            /\ ~contains_key(label_id_mapping_, g)
                  => /\ label(label_id_mapping_', g)
                          = num_labels(label_id_mapping_)
                     /\ num_labels(label_id_mapping_')
                          = num_labels(label_id_mapping_) + 1
                     /\ \A h \in DOMAIN label_id_mapping_.forward_ :
                           /\ contains_key(label_id_mapping_', h)
                           /\ label(label_id_mapping_', h)
                                = label(label_id_mapping_, h)
            /\ contains_key(label_id_mapping_, g)
                  => label_id_mapping_' = label_id_mapping_

\* C14: training-mode analyze of a position with tag g sets the position's
\* label id to label(g); a tag the label mapping lacked is inserted with
\* the size before the call as id and the mapping grows by exactly one
\* entry, a tag it held leaves the label mapping as it was.
C14_TrainingLabel == [][TrainingStepLabels]_vars

C14_Witness ==
    /\ Returned("analyze")
    /\ Len(sequence) = 2
    /\ num_labels(last.labels) = 1
    /\ contains_key(last.labels, sequence[1].tag)
    /\ sequence[1].label = label(last.labels, sequence[1].tag)
    /\ ~contains_key(last.labels, sequence[2].tag)
    /\ sequence[2].label = 1
    /\ num_labels(label_id_mapping_) = 2

\* C15: the label ids of the label mapping are exactly
\* 0 .. num_labels() - 1, and the label id inference mode gives a position
\* that is untagged or carries an unknown tag is the id of no tag.
C15_LabelSentinel ==
    /\ Ids(label_id_mapping_.forward_)
          = 0..(num_labels(label_id_mapping_) - 1)
    /\ DOMAIN label_id_mapping_.backward_ = Ids(label_id_mapping_.forward_)
    /\ last.op = "analyze const"
          => \A i \in 1..t :
                (~sequence[i].tagged
                    \/ ~contains_key(label_id_mapping_, sequence[i].tag))
                  => /\ sequence[i].label
                          \notin DOMAIN label_id_mapping_.backward_
                     /\ sequence[i].label = num_labels(label_id_mapping_)

C15_Witness ==
    /\ Returned("analyze const")
    /\ num_labels(label_id_mapping_) = 2
    /\ Len(sequence) = 2
    /\ ~sequence[1].tagged
    /\ sequence[1].label = 2
    /\ sequence[2].tagged
    /\ sequence[2].label = 1

\* the indices of the trace at which the label of position p is written
LabelWrites(p) ==
    {k \in 1..Len(trace) : trace[k].kind = "label" /\ trace[k].t = p}

\* C16: in both modes the label id of a position is written once, after
\* every observation function of the pipeline has run for the position,
\* and nothing of the pipeline runs for the position afterwards.
C16_FeaturesBeforeLabel ==
    \A p \in 0..(t - 1) :
        /\ Cardinality(LabelWrites(p)) = 1
        /\ \A k \in LabelWrites(p) :
              /\ Cardinality({j \in 1..(k - 1) :
                                trace[j].kind = "fn" /\ trace[j].t = p})
                    = Len(obs_fns_)
              /\ \A j \in (k + 1)..Len(trace) : trace[j].t # p
              /\ sequence[p + 1].labeled
              /\ sequence[p + 1].label = trace[k].id

C16_Witness ==
    /\ Returned("analyze")
    /\ Len(sequence) = 2
    /\ LabelWrites(0) # {}
    /\ LabelWrites(1) = {Len(trace)}
    /\ \E k \in LabelWrites(0) : trace[k + 1].kind = "fn"

\* the mappings a load of the stream can leave, over the values the
\* indeterminate feature_id can take
LoadOutcomes(input) ==
    {load_feature_stream(<<>>, input, indeterminate).map :
        indeterminate \in 0..MaxIndeterminate}

\* C17: the feature mapping a load produces does not depend on the count
\* header of the stream: streams that differ in the header alone load to
\* the same mapping, and every record up to the end of the stream is read
\* whatever the header says.
C17_AdvisoryHeader ==
    (Returned("load") /\ error = "") =>
        /\ \A count \in 0..(MaxHeader + 1) :
              LoadOutcomes([FeatureFile EXCEPT !.count = count])
                  = LoadOutcomes(FeatureFile)
        /\ \A count \in 0..(MaxHeader + 1) :
              feature_id_mapping_
                  \in LoadOutcomes([FeatureFile EXCEPT !.count = count])
        /\ \A i \in 1..Len(FeatureFile.records) :
              FeatureFile.records[i][1] \in DOMAIN feature_id_mapping_

C17_Witness ==
    /\ Returned("load")
    /\ error = ""
    /\ Len(FeatureFile.records) = 2
    /\ FeatureFile.count = 0
    /\ \A i \in 1..2 :
          FeatureFile.records[i][1] \in DOMAIN feature_id_mapping_

\* how many times the current-word function added the name at position p
TimesAdded(p, name) ==
    Cardinality({k \in 1..Len(NamesAdded(p, 1)) : NamesAdded(p, 1)[k] = name})

Emitted(p, name) == TimesAdded(p, name) = 1

\* C18: at every position p the token gets has_digit iff it contains a
\* digit, has_hyphen iff it contains '-', has_upper iff it contains an
\* uppercase character, has_upper_and_not_sentence_start iff it does and
\* p # 0, all_upper iff all of its characters are uppercase, each at most
\* once; "Run-23" gets has_digit and has_hyphen and not all_upper.
C18_Indicators ==
    last.op = "analyze const" =>
        \A p \in 0..(t - 1) :
            LET word == sequence[p + 1].symbol
                chars == {word[k] : k \in 1..Len(word)}
            IN  /\ \A name \in {<<"w[t]_has_digit=1">>,
                                 <<"w[t]_has_hyphen=1">>,
                                 <<"w[t]_has_upper=1">>,
                                 <<"w[t]_has_upper_and_not_sentence_start=1">>,
                                 <<"w[t]_all_upper=1">>} :
                      TimesAdded(p, name) <= 1
                /\ Emitted(p, <<"w[t]_has_digit=1">>)
                      <=> chars \cap Digits # {}
                /\ Emitted(p, <<"w[t]_has_hyphen=1">>) <=> "-" \in chars
                /\ Emitted(p, <<"w[t]_has_upper=1">>)
                      <=> chars \cap Uppers # {}
                /\ Emitted(p, <<"w[t]_has_upper_and_not_sentence_start=1">>)
                      <=> (chars \cap Uppers # {} /\ p # 0)
                /\ Emitted(p, <<"w[t]_all_upper=1">>)
                      <=> chars \subseteq Uppers
                /\ word = <<"R", "u", "n", "-", "2", "3">>
                      => /\ Emitted(p, <<"w[t]_has_digit=1">>)
                         /\ Emitted(p, <<"w[t]_has_hyphen=1">>)
                         /\ ~Emitted(p, <<"w[t]_all_upper=1">>)

C18_Witness ==
    /\ Returned("analyze const")
    /\ Len(sequence) = 3
    /\ sequence[1].symbol = <<"R", "u", "n", "-", "2", "3">>
    /\ Emitted(0, <<"w[t]_has_upper=1">>)
    /\ ~Emitted(0, <<"w[t]_has_upper_and_not_sentence_start=1">>)
    /\ sequence[2].symbol = <<"A", "B">>
    /\ Emitted(1, <<"w[t]_has_upper_and_not_sentence_start=1">>)
    /\ Emitted(1, <<"w[t]_all_upper=1">>)
    /\ sequence[3].symbol = <<"7">>
    /\ Emitted(2, <<"w[t]_has_digit=1">>)
    /\ ~Emitted(2, <<"w[t]_has_upper=1">>)

\* C19: inference-mode analyze leaves the feature mapping and the label
\* mapping as they were before the call, whatever names, untagged
\* positions and unknown tags the sequence has; no tag is registered.
C19_InferenceReadOnly ==
    last.op = "analyze const" =>
        /\ feature_id_mapping_ = last.features
        /\ label_id_mapping_ = last.labels
        /\ \A i \in 1..t :
              (sequence[i].tagged
                    /\ ~contains_key(last.labels, sequence[i].tag))
                  => ~contains_key(label_id_mapping_, sequence[i].tag)

C19_Witness ==
    /\ Returned("analyze const")
    /\ Len(sequence) = 2
    /\ num_labels(label_id_mapping_) = 1
    /\ ~sequence[1].tagged
    /\ sequence[2].tagged
    /\ ~contains_key(label_id_mapping_, sequence[2].tag)
    /\ num_features(feature_id_mapping_) > 1
    /\ \E i \in 1..Len(trace) :
          /\ trace[i].kind = "add"
          /\ trace[i].t = 0
          /\ trace[i].name \notin DOMAIN feature_id_mapping_

\* the record <<key, value>> is in the file
InFile(file, key, value) ==
    \E i \in 1..Len(file.records) : file.records[i] = <<key, value>>

\* C20: after load(prefix), successful or not, neither mapping holds an
\* association the analyzer had in memory before the call unless the file
\* read for that mapping has it: load replaces, it does not merge, and a
\* load that fails has discarded the previous contents too.
C20_LoadReplaces ==
    Returned("load") =>
        /\ \A n \in DOMAIN feature_id_mapping_ :
              (n \in DOMAIN last.features
                    /\ last.features[n] = feature_id_mapping_[n])
                  => InFile(FeatureFile, n, feature_id_mapping_[n])
        /\ \A g \in DOMAIN label_id_mapping_.forward_ :
              (contains_key(last.labels, g)
                    /\ label(last.labels, g) = label(label_id_mapping_, g))
                  => InFile(fs[LabelFile], g, label(label_id_mapping_, g))

====
